---- MODULE Spec2Model ----
(***************************************************************************)
(* Job orchestration engine of the Runhuman QA test action                  *)
(* (src/src/api-client.ts): job submission, status polling, retry with     *)
(* exponential backoff and dynamic deadline recalculation.                  *)
(*                                                                         *)
(* Time is in milliseconds, as in the source.  Time passes in sleep()      *)
(* (retry backoff, poll interval) and in network calls, which answer at    *)
(* once or after SlowMs.  Texts (error messages, response bodies) are      *)
(* sequences of tokens, and String.includes is membership of a token in    *)
(* the sequence.  An optional value is <<>> when absent and <<v>> when     *)
(* present.  One action is one invocation of createJob or getJobStatus     *)
(* together with everything the run does up to its next network call.      *)
(***************************************************************************)
EXTENDS Integers, Sequences, FiniteSets, TLC

\* ------------------------------------------------------------------ bounds

\* Runs of the retry profile: network disturbances (a retried failure, a slow
\* answer) injected per run, and status fetches answered per run.
MaxFaults == 4

MaxPolls == 3

\* Runs of the polling profile (no limit on status fetches): network
\* disturbances injected per run.
MaxFaultsLong == 1

\* Longest input text given to parseInputs.
MaxInputLen == 3

\* Time a slow network call takes to answer.
SlowMs == 2000

\* ------------------------------------------------------- program constants

POLL_INTERVAL_MS == 5000

DEFAULT_MAX_WAIT_MS == 600000

BUFFER_MS == 5 * 60 * 1000

maxRetries == 3

baseDelayMs == 1000

TERMINAL_STATES == {"completed", "error", "abandoned", "incomplete", "rejected"}

JobStatus ==
  {"pending", "waiting", "working", "completed", "incomplete", "abandoned", "rejected", "error"}

\* ---------------------------------------------------------------- helpers

None == <<>>

Some(v) == <<v>>

Max(a, b) == IF a > b THEN a ELSE b

RECURSIVE Pow2(_)
Pow2(n) == IF n = 0 THEN 1 ELSE 2 * Pow2(n - 1)

RECURSIVE SumSeq(_)
SumSeq(s) == IF s = <<>> THEN 0 ELSE Head(s) + SumSeq(Tail(s))

\* ------------------------------------------------------ Deadline Calculator

OrZeroDropsExtension(opt) == 0

\* totalExtensionMinutes || 0
OrZero(opt) == IF opt = None THEN 0 ELSE opt[1]

calculateMaxWaitMsNoBuffer(targetDurationMinutes, totalExtensionMinutes, responseDeadline, nowMs) ==
  IF responseDeadline # None
    THEN Max((responseDeadline[1] - nowMs) + BUFFER_MS, DEFAULT_MAX_WAIT_MS)
    ELSE IF targetDurationMinutes # None
      THEN (targetDurationMinutes[1] + OrZero(totalExtensionMinutes)) * 60 * 1000
      ELSE DEFAULT_MAX_WAIT_MS

calculateMaxWaitMsNoFloor(targetDurationMinutes, totalExtensionMinutes, responseDeadline, nowMs) ==
  IF responseDeadline # None
    THEN (responseDeadline[1] - nowMs) + BUFFER_MS
    ELSE IF targetDurationMinutes # None
      THEN (targetDurationMinutes[1] + OrZero(totalExtensionMinutes)) * 60 * 1000 + BUFFER_MS
      ELSE DEFAULT_MAX_WAIT_MS

calculateMaxWaitMs(targetDurationMinutes, totalExtensionMinutes, responseDeadline, nowMs) ==
  IF responseDeadline # None
    THEN Max((responseDeadline[1] - nowMs) + BUFFER_MS, DEFAULT_MAX_WAIT_MS)
    ELSE IF targetDurationMinutes # None
      THEN (targetDurationMinutes[1] + OrZero(totalExtensionMinutes)) * 60 * 1000 + BUFFER_MS
      ELSE DEFAULT_MAX_WAIT_MS

\* ------------------------------------------------------------ Retry Policy

NetworkTokens == {"ECONNRESET", "ETIMEDOUT", "socket hang up", "fetch failed"}

includes(msg, token) == \E i \in DOMAIN msg : msg[i] = token

isNetworkError(msg) == \E t \in NetworkTokens : includes(msg, t)

backoffDelayLinear(k) == baseDelayMs * (k + 1)

backoffDelay(k) == baseDelayMs * Pow2(k)

rethrowsOneEarly(err, k) == ~isNetworkError(err.msg) \/ k = maxRetries - 1

\* !isNetworkError || attempt === maxRetries
rethrows(err, k) == ~isNetworkError(err.msg) \/ k = maxRetries

\* --------------------------------------------------------------- Transport

CodeText(code) ==
  CASE code = 400 -> "400"
    [] code = 401 -> "401"
    [] code = 403 -> "403"
    [] code = 404 -> "404"
    [] code = 408 -> "408"
    [] code = 500 -> "500"
    [] code = 503 -> "503"
    [] OTHER -> "0"

StatusText(code) ==
  CASE code = 400 -> "Bad Request"
    [] code = 401 -> "Unauthorized"
    [] code = 403 -> "Forbidden"
    [] code = 404 -> "Not Found"
    [] code = 408 -> "Request Timeout"
    [] code = 500 -> "Internal Server Error"
    [] code = 503 -> "Service Unavailable"
    [] OTHER -> ""

\* A response body: its raw text, whether JSON.parse accepts it, and the
\* parsed object's error and message fields (<<>> when absent or empty).
Body(raw, parsed, error, message) ==
  [raw |-> raw, parsed |-> parsed, error |-> error, message |-> message]

JsonError(text) == Body(<<"{error:">> \o text \o <<"}">>, TRUE, text, <<>>)

\* Non-success responses the service may give: status code and body.
HttpErrors ==
  { [code |-> 401, body |-> JsonError(<<"Invalid API key">>)],
    [code |-> 404, body |-> JsonError(<<"Job not found">>)],
    [code |-> 408, body |-> JsonError(<<"Request Timeout">>)],
    [code |-> 500, body |-> JsonError(<<"Internal server error">>)],
    [code |-> 500, body |-> JsonError(<<"upstream", "ECONNRESET">>)],
    [code |-> 500, body |-> Body(<<>>, FALSE, <<>>, <<>>)] }

\* Messages of the errors a rejected fetch() carries.
FetchFailures == { <<"fetch failed">> }

createJobErrorMessageRawOnly(body) ==
  IF body.raw # <<>> THEN body.raw ELSE <<"(empty response body)">>

\* errorData.error || errorData.message || JSON.stringify(errorData), or,
\* when the body does not parse, errorText || '(empty response body)'
createJobErrorMessage(body) ==
  IF body.parsed
    THEN IF body.error # <<>> THEN body.error
         ELSE IF body.message # <<>> THEN body.message
         ELSE body.raw
    ELSE IF body.raw # <<>> THEN body.raw ELSE <<"(empty response body)">>

\* An Error object: msg is its message; kind (the failure class of the
\* taxonomy), code (the HTTP status behind it, 0 if none) and attempt (the
\* invocation that raised it) identify it.
Err(kind, code, msg, k) == [kind |-> kind, code |-> code, msg |-> msg, attempt |-> k]

createJobHttpErrorNo401(code, body, k) ==
  Err("Request", code, <<"Failed to create job", CodeText(code)>> \o createJobErrorMessage(body), k)

createJobHttpError(code, body, k) ==
  IF code = 401
    THEN Err("Auth", code, <<"Authentication failed", "Invalid API key">>, k)
    ELSE Err("Request", code,
             <<"Failed to create job", CodeText(code)>> \o createJobErrorMessage(body), k)

jobIdMissingOnlyAbsent(data) == data = None

\* !data.jobId, for the jobId field of a 2xx body (None when absent)
jobIdMissing(data) == IF data = None THEN TRUE ELSE data[1] = ""

createJobNoIdError(k) == Err("Malformed", 0, <<"API did not return a job ID">>, k)

getJobStatusNetworkError(fetchMsg, k) ==
  Err("Transport", 0, <<"Network error checking job status">> \o fetchMsg, k)

getJobStatusHttpErrorNo404(code, body, id, k) ==
  Err("Request", code,
      <<"Failed to get job status", CodeText(code)>>
        \o (IF body.raw # <<>> THEN body.raw ELSE <<StatusText(code)>>), k)

getJobStatusHttpError(code, body, id, k) ==
  IF code = 404
    THEN Err("NotFound", code, <<"Job", id, "not found">>, k)
    ELSE Err("Request", code,
             <<"Failed to get job status", CodeText(code)>>
               \o (IF body.raw # <<>> THEN body.raw ELSE <<StatusText(code)>>), k)

\* ------------------------------------------------------------------- state

VARIABLES
  pc,           \* position of the run: "submit", "poll", "done", "failed" ("calc": calculator runs)
  now,          \* Date.now()
  request,      \* the Job Request: [targetDurationMinutes]
  attempt,      \* withRetry: loop variable of the running call
  lastError,    \* withRetry: lastError of the running call (None when undefined)
  jobId,        \* runQATest: the job handle (None before submission succeeds)
  startTime,    \* waitForCompletion: startTime
  elapsed,      \* waitForCompletion: elapsed of the running iteration
  maxWaitMs,    \* waitForCompletion: the effective ceiling
  lastStatus,   \* waitForCompletion: lastStatus ("null" before the first snapshot)
  result,       \* the WaitResult returned (None while running)
  failure,      \* the error propagated to the caller (None while running)
  raised,       \* history: the errors raised by the invocations of the running withRetry call
  delays,       \* history: the backoff delays slept by the running withRetry call
  invocations,  \* history: invocations of the operation by the running withRetry call
  prevDelays,   \* history: delays of the latest withRetry call that returned before the running one
  prevInvocations, \* history: its invocations (0 if there is none)
  prevSpent,    \* history: time spent inside it, from its first invocation to its return
  submitCalls,  \* history: POST /api/jobs calls issued
  fetchCalls,   \* history: GET /api/job/{id} calls issued
  fetched,      \* history: snapshots fetched successfully
  termAt,       \* history: index of the first terminal snapshot fetched (0 if none)
  termFetchCalls, \* history: fetchCalls when that snapshot arrived
  ceilMax,      \* history: maximum of the initial ceiling and every recomputed ceiling
  prevMaxWaitMs, \* history: the ceiling before the latest snapshot was fetched
  sleeps,       \* history: poll-interval sleeps of the loop
  notified,     \* output: the status-change line logged by the latest iteration (None if none)
  faults,       \* network disturbances injected so far
  faultLimit,   \* profile of the run: network disturbances it may meet
  pollLimit,    \* profile of the run: status fetches answered (0: no limit)
  calcArgs,     \* calculator run: the arguments
  calcResult,   \* calculator run: the result (None before it is computed)
  reply,        \* classification run: the non-success response given
  thrown,       \* classification run: the error thrown for it (None before)
  inFlight,     \* control-flow run: network operations issued and not yet settled
  timers,       \* control-flow run: sleep timers pending
  remoteJobs,   \* control-flow run: jobs the remote service created for the POSTs it received
  input,        \* function run: the input drawn
  output        \* function run: the value computed from it (None before)

vars ==
  <<pc, now, request, attempt, lastError, jobId, startTime, elapsed, maxWaitMs, lastStatus,
    result, failure, raised, delays, invocations, prevDelays, prevInvocations, prevSpent,
    submitCalls,
    fetchCalls, fetched, termAt, termFetchCalls, ceilMax, prevMaxWaitMs, sleeps, notified, faults,
    faultLimit,
    pollLimit, calcArgs, calcResult, reply, thrown, inFlight, timers, remoteJobs, input, output>>

calcVars == <<calcArgs, calcResult, reply, thrown>>

flowVars == <<inFlight, timers, remoteJobs>>

pureVars == <<input, output>>

profileVars == <<request, faultLimit, pollLimit>>

pollVars == <<startTime, elapsed, maxWaitMs, lastStatus>>

pollHistory ==
  <<fetched, termAt, termFetchCalls, ceilMax, prevMaxWaitMs, sleeps, notified, prevDelays,
    prevInvocations, prevSpent>>

\* Largest target duration a validated request carries.
MaxTargetMinutes == 60

\* Target durations a validated Job Request carries (absent, or minutes).
RequestTargets == {None, Some(1), Some(2)}

JOB_ID == "job_1"

\* The jobId field of the 2xx bodies POST /api/jobs may answer with.
SubmitAnswers == {None, Some(""), Some(JOB_ID)}

\* Scheduling fields a snapshot may carry: server-reported target minutes,
\* extension minutes granted so far, absolute response deadline.
Sched(t, e, d) ==
  [targetDurationMinutes |-> t, totalExtensionMinutes |-> e, responseDeadline |-> d]

SchedOptions(nowMs) ==
  { Sched(None, None, None),
    Sched(Some(1), None, None),
    Sched(Some(1), Some(1), None),
    Sched(Some(2), Some(0), None),
    Sched(Some(1), None, Some(nowMs + 60000)) }

\* A Job Status Snapshot; seq (history) is its position in the run's stream.
Snapshot(n, s, o) ==
  [id |-> JOB_ID, seq |-> n, status |-> s,
   targetDurationMinutes |-> o.targetDurationMinutes,
   totalExtensionMinutes |-> o.totalExtensionMinutes,
   responseDeadline |-> o.responseDeadline]

\* The locals and the history of a run that has not started.
Fresh ==
  /\ attempt = 0
  /\ lastError = None
  /\ jobId = None
  /\ startTime = 0
  /\ elapsed = 0
  /\ maxWaitMs = 0
  /\ lastStatus = "null"
  /\ result = None
  /\ failure = None
  /\ raised = <<>>
  /\ delays = <<>>
  /\ invocations = 0
  /\ prevDelays = <<>>
  /\ prevInvocations = 0
  /\ prevSpent = 0
  /\ submitCalls = 0
  /\ fetchCalls = 0
  /\ fetched = 0
  /\ termAt = 0
  /\ termFetchCalls = 0
  /\ ceilMax = 0
  /\ prevMaxWaitMs = 0
  /\ sleeps = 0
  /\ notified = None
  /\ faults = 0
  /\ inFlight = 0
  /\ timers = 0
  /\ remoteJobs = 0

RunInit ==
  /\ input = None
  /\ output = None
  /\ pc = "submit"
  /\ now = 0
  /\ request \in [targetDurationMinutes : RequestTargets]
  /\ Fresh
  /\ calcArgs = None
  /\ calcResult = None
  /\ reply = None
  /\ thrown = None

\* Polling profile: the poll loop runs to its end, with few transport faults.
Init ==
  /\ RunInit
  /\ faultLimit = MaxFaultsLong
  /\ pollLimit = 0

\* Retry profile: every retry budget can be exhausted, over a few polls.
RetryInit ==
  /\ RunInit
  /\ faultLimit = MaxFaults
  /\ pollLimit = MaxPolls

\* Entry profile: every target duration a validated request may carry.
EntryInit ==
  /\ input = None
  /\ output = None
  /\ pc = "submit"
  /\ now = 0
  /\ request \in [targetDurationMinutes : {None} \cup {Some(t) : t \in 1..MaxTargetMinutes}]
  /\ Fresh
  /\ calcArgs = None
  /\ calcResult = None
  /\ reply = None
  /\ thrown = None
  /\ faultLimit = MaxFaultsLong
  /\ pollLimit = MaxPolls

\* A target duration whose ceiling lies above the default one.
LongTarget == 6

\* Long profile: a request without target duration, or one whose initial
\* ceiling is above 10 minutes.
LongInit ==
  /\ input = None
  /\ output = None
  /\ pc = "submit"
  /\ now = 0
  /\ request \in [targetDurationMinutes : {None, Some(LongTarget)}]
  /\ Fresh
  /\ calcArgs = None
  /\ calcResult = None
  /\ reply = None
  /\ thrown = None
  /\ faultLimit = MaxFaultsLong
  /\ pollLimit = 0

\* --------------------------------------------------------------- network

\* Times the next network call may take to answer.
Latencies == IF faults < faultLimit THEN {0, SlowMs} ELSE {0}

Cost(d) == IF d > 0 THEN 1 ELSE 0

\* ------------------------------------------------------------- withRetry

\* The catch block of withRetry for an error raised by the running invocation:
\* rethrow, or warn, sleep the backoff delay and go round the loop.
\* The invocation answered after d.
Catch(err, d) ==
  /\ lastError' = Some(err)
  /\ raised' = Append(raised, err)
  /\ invocations' = invocations + 1
  /\ IF rethrows(err, attempt)
       THEN /\ pc' = "failed"
            /\ failure' = Some(err)
            /\ now' = now + d
            /\ faults' = faults + Cost(d)
            /\ UNCHANGED <<attempt, delays>>
       ELSE /\ faults + Cost(d) < faultLimit
            /\ delays' = Append(delays, backoffDelay(attempt))
            /\ now' = now + d + backoffDelay(attempt)
            /\ attempt' = attempt + 1
            /\ faults' = faults + Cost(d) + 1
            /\ UNCHANGED <<pc, failure>>

attemptCarriedOver(previous) == previous

\* for (let attempt = 0; ...): the loop variable of a withRetry call starts at 0
\* whatever the previous call left.
attemptOfNewCall(previous) == 0

\* The running withRetry call returns without a return of the run, and the next
\* call is entered: its locals are fresh.
NextRetryCall(spent) ==
  /\ prevDelays' = delays
  /\ prevInvocations' = invocations + 1
  /\ prevSpent' = spent
  /\ attempt' = attemptOfNewCall(attempt)
  /\ lastError' = None
  /\ raised' = <<>>
  /\ delays' = <<>>
  /\ invocations' = 0

\* ------------------------------------------------------------- runQATest

initialMaxWaitMsIgnoresTarget(initialTargetMinutes) == DEFAULT_MAX_WAIT_MS

\* The initial ceiling of waitForCompletion.
initialMaxWaitMs(initialTargetMinutes) ==
  IF initialTargetMinutes # None /\ initialTargetMinutes[1] # 0
    THEN initialTargetMinutes[1] * 60 * 1000 + BUFFER_MS
    ELSE DEFAULT_MAX_WAIT_MS

\* createJob answers 2xx with a job id: withRetry returns it, runQATest enters
\* waitForCompletion, and the loop reaches its first status fetch.
CreateJobOk ==
  /\ pc = "submit"
  /\ attempt <= maxRetries
  /\ submitCalls' = submitCalls + 1
  /\ \E d \in Latencies :
       /\ now' = now + d
       /\ faults' = faults + Cost(d)
  /\ \E data \in SubmitAnswers :
       /\ ~jobIdMissing(data)
       /\ jobId' = data
  /\ startTime' = now'
  /\ lastStatus' = "null"
  /\ maxWaitMs' = initialMaxWaitMs(request.targetDurationMinutes)
  /\ ceilMax' = initialMaxWaitMs(request.targetDurationMinutes)
  /\ prevMaxWaitMs' = initialMaxWaitMs(request.targetDurationMinutes)
  /\ elapsed' = now' - startTime'
  /\ NextRetryCall(now')
  /\ pc' = "poll"
  /\ UNCHANGED <<profileVars, result, failure, fetchCalls, fetched, termAt,
                 termFetchCalls, sleeps, notified, calcVars, flowVars, pureVars>>

\* createJob answers 2xx without a job id.
CreateJobNoId ==
  /\ pc = "submit"
  /\ attempt <= maxRetries
  /\ submitCalls' = submitCalls + 1
  /\ \E data \in SubmitAnswers, d \in Latencies :
       /\ jobIdMissing(data)
       /\ Catch(createJobNoIdError(attempt), d)
  /\ UNCHANGED <<profileVars, jobId, pollVars, result, fetchCalls, pollHistory, calcVars, flowVars, pureVars>>

\* createJob answers with a non-success status.
CreateJobHttpError ==
  /\ pc = "submit"
  /\ attempt <= maxRetries
  /\ submitCalls' = submitCalls + 1
  /\ \E r \in HttpErrors, d \in Latencies : Catch(createJobHttpError(r.code, r.body, attempt), d)
  /\ UNCHANGED <<profileVars, jobId, pollVars, result, fetchCalls, pollHistory, calcVars, flowVars, pureVars>>

\* fetch() rejects inside createJob: the error propagates as it is.
CreateJobFetchRejects ==
  /\ pc = "submit"
  /\ attempt <= maxRetries
  /\ submitCalls' = submitCalls + 1
  /\ \E m \in FetchFailures, d \in Latencies : Catch(Err("Transport", 0, m, attempt), d)
  /\ UNCHANGED <<profileVars, jobId, pollVars, result, fetchCalls, pollHistory, calcVars, flowVars, pureVars>>

\* ------------------------------------------------------ waitForCompletion

updateMaxWaitOverwrite(cur, new) == new

updateMaxWaitNever(cur, new) == cur

\* if (newMaxWaitMs > maxWaitMs) maxWaitMs = newMaxWaitMs
updateMaxWait(cur, new) == IF new > cur THEN new ELSE cur

statusChangedAlways(status, last) == TRUE

\* status.status !== lastStatus
statusChanged(status, last) == status # last

isTerminalNoIncomplete(s) == s \in TERMINAL_STATES \ {"incomplete"}

isTerminalNoAbandoned(s) == s \in TERMINAL_STATES \ {"abandoned"}

isTerminalOnlyCompleted(s) == s = "completed"

\* TERMINAL_STATES.includes(status.status)
isTerminal(s) == s \in TERMINAL_STATES

timeoutReachedLate(elapsedMs, maxMs) == elapsedMs > maxMs + POLL_INTERVAL_MS

timeoutReachedAtCeiling(elapsedMs, maxMs) == elapsedMs >= maxMs

\* elapsed > maxWaitMs
timeoutReached(elapsedMs, maxMs) == elapsedMs > maxMs

loopExitTerminalAsTimeout(s, elapsedMs, maxMs) ==
  IF isTerminal(s) \/ timeoutReached(elapsedMs, maxMs) THEN "timeout" ELSE "continue"

loopExitTimeoutFirst(s, elapsedMs, maxMs) ==
  IF timeoutReached(elapsedMs, maxMs) THEN "timeout"
  ELSE IF isTerminal(s) THEN "terminal"
  ELSE "continue"

\* The exits of the loop body in their order: the terminal return, then the
\* timeout return, else the sleep.
loopExit(s, elapsedMs, maxMs) ==
  IF isTerminal(s) THEN "terminal"
  ELSE IF timeoutReached(elapsedMs, maxMs) THEN "timeout"
  ELSE "continue"

WaitResultOfNoFetch(status, timedOut) ==
  [job |-> [status EXCEPT !.seq = 0], timedOut |-> timedOut]

\* return { status, timedOut }: the snapshot of the running iteration and the flag.
WaitResult(status, timedOut) == [job |-> status, timedOut |-> timedOut]

pollSleepDoubled == 2 * POLL_INTERVAL_MS

pollSleepOfBaseDelay == baseDelayMs

\* await sleep(POLL_INTERVAL_MS)
pollSleepMs == POLL_INTERVAL_MS

\* getJobStatus answers 2xx with a snapshot: withRetry returns it and the rest
\* of the loop body runs, to a return, or through the sleep and the loop top
\* to the next status fetch.
GetJobStatusOk ==
  /\ pc = "poll"
  /\ attempt <= maxRetries
  /\ pollLimit = 0 \/ fetched < pollLimit
  /\ \E d \in Latencies, s \in JobStatus : \E o \in SchedOptions(now + d) :
       LET answered == now + d
           status == Snapshot(fetched + 1, s, o)
           newMaxWaitMs == calculateMaxWaitMs(status.targetDurationMinutes,
                                              status.totalExtensionMinutes,
                                              status.responseDeadline, answered)
           ceiling == updateMaxWait(maxWaitMs, newMaxWaitMs)
           isFirstTerminal == termAt = 0 /\ s \notin {"pending", "waiting", "working"}
       IN /\ faults' = faults + Cost(d)
          /\ maxWaitMs' = ceiling
          /\ ceilMax' = Max(ceilMax, newMaxWaitMs)
          /\ prevMaxWaitMs' = maxWaitMs
          /\ notified' = IF statusChanged(s, lastStatus) THEN Some(s) ELSE None
          /\ lastStatus' = IF statusChanged(s, lastStatus) THEN s ELSE lastStatus
          /\ termAt' = IF isFirstTerminal THEN fetched + 1 ELSE termAt
          /\ termFetchCalls' = IF isFirstTerminal THEN fetchCalls + 1 ELSE termFetchCalls
          /\ IF loopExit(s, elapsed, ceiling) = "terminal"
               THEN /\ result' = Some(WaitResult(status, FALSE))
                    /\ pc' = "done"
                    /\ invocations' = invocations + 1
                    /\ now' = answered
                    /\ UNCHANGED <<elapsed, attempt, lastError, raised, delays, sleeps,
                                   prevDelays, prevInvocations, prevSpent>>
               ELSE IF loopExit(s, elapsed, ceiling) = "timeout"
                 THEN /\ result' = Some(WaitResult(status, TRUE))
                      /\ pc' = "done"
                      /\ invocations' = invocations + 1
                      /\ now' = answered
                      /\ UNCHANGED <<elapsed, attempt, lastError, raised, delays, sleeps,
                                     prevDelays, prevInvocations, prevSpent>>
                 ELSE /\ now' = answered + pollSleepMs
                      /\ sleeps' = sleeps + 1
                      /\ elapsed' = now' - startTime
                      /\ NextRetryCall(answered - (startTime + elapsed))
                      /\ UNCHANGED <<pc, result>>
  /\ fetchCalls' = fetchCalls + 1
  /\ fetched' = fetched + 1
  /\ UNCHANGED <<profileVars, jobId, startTime, failure, submitCalls, calcVars, flowVars, pureVars>>

\* getJobStatus answers with a non-success status.
GetJobStatusHttpError ==
  /\ pc = "poll"
  /\ attempt <= maxRetries
  /\ fetchCalls' = fetchCalls + 1
  /\ \E r \in HttpErrors, d \in Latencies :
       Catch(getJobStatusHttpError(r.code, r.body, jobId[1], attempt), d)
  /\ UNCHANGED <<profileVars, jobId, pollVars, result, submitCalls, pollHistory, calcVars, flowVars, pureVars>>

\* fetch() rejects inside getJobStatus: the error is logged and wrapped.
GetJobStatusFetchRejects ==
  /\ pc = "poll"
  /\ attempt <= maxRetries
  /\ fetchCalls' = fetchCalls + 1
  /\ \E m \in FetchFailures, d \in Latencies : Catch(getJobStatusNetworkError(m, attempt), d)
  /\ UNCHANGED <<profileVars, jobId, pollVars, result, submitCalls, pollHistory, calcVars, flowVars, pureVars>>

Next ==
  \/ CreateJobOk
  \/ CreateJobNoId
  \/ CreateJobHttpError
  \/ CreateJobFetchRejects
  \/ GetJobStatusOk
  \/ GetJobStatusHttpError
  \/ GetJobStatusFetchRejects

Spec == Init /\ [][Next]_vars

RetrySpec == RetryInit /\ [][Next]_vars

EntrySpec == EntryInit /\ [][Next]_vars

LongSpec == LongInit /\ [][Next]_vars

\* The long profile under the condition that every network call returns or
\* fails and every sleep timer fires: an await never hangs, so the step that
\* follows it is taken.
LiveInit ==
  /\ LongInit
  /\ request.targetDurationMinutes = Some(LongTarget)

LiveSpec == LiveInit /\ [][Next]_vars /\ WF_vars(Next)

\* -------------------------------------------- Deadline Calculator on its own

\* Clock reading of the calculator runs.
CalcNow == 1000000

CalcTargets == {None} \cup {Some(t) : t \in 1..MaxTargetMinutes}

CalcExtensions == {None, Some(0), Some(1), Some(5)}

CalcDeadlines == {None, Some(CalcNow - 60000), Some(CalcNow + 60000), Some(CalcNow + 400000)}

CalcInit ==
  /\ input = None
  /\ output = None
  /\ pc = "calc"
  /\ now = CalcNow
  /\ request = [targetDurationMinutes |-> None]
  /\ Fresh
  /\ faultLimit = 0
  /\ pollLimit = 0
  /\ calcArgs \in {Some(Sched(t, e, d)) : t \in CalcTargets, e \in CalcExtensions, d \in CalcDeadlines}
  /\ calcResult = None
  /\ reply = None
  /\ thrown = None

\* One evaluation of calculateMaxWaitMs on the drawn arguments.
CalcApply ==
  /\ pc = "calc"
  /\ calcResult = None
  /\ calcResult' = Some(calculateMaxWaitMs(calcArgs[1].targetDurationMinutes,
                                           calcArgs[1].totalExtensionMinutes,
                                           calcArgs[1].responseDeadline, now))
  /\ UNCHANGED <<pc, now, profileVars, attempt, lastError, jobId, pollVars, result, failure,
                 raised, delays, invocations, submitCalls, fetchCalls, pollHistory, faults,
                 calcArgs, reply, thrown, flowVars, pureVars>>

CalcSpec == CalcInit /\ [][CalcApply]_vars

\* ------------------------------------- failure classification on its own

ClassifyCodes == {400, 401, 403, 404, 408, 500, 503}

\* Bodies of non-success responses: JSON with an error field, with a message
\* field, with both, with neither; text that is not JSON; nothing.
ClassifyBodies ==
  { JsonError(<<"Invalid API key">>),
    Body(<<"{message:", "Quota exceeded", "}">>, TRUE, <<>>, <<"Quota exceeded">>),
    Body(<<"{error:", "Bad schema", ",message:", "see docs", "}">>, TRUE,
         <<"Bad schema">>, <<"see docs">>),
    Body(<<"{}">>, TRUE, <<>>, <<>>),
    Body(<<"<html>Bad Gateway</html>">>, FALSE, <<>>, <<>>),
    Body(<<>>, FALSE, <<>>, <<>>) }

ClassifyInit ==
  /\ input = None
  /\ output = None
  /\ pc \in {"classify_submit", "classify_fetch"}
  /\ now = 0
  /\ request = [targetDurationMinutes |-> None]
  /\ Fresh
  /\ faultLimit = 0
  /\ pollLimit = 0
  /\ calcArgs = None
  /\ calcResult = None
  /\ reply \in {Some([code |-> c, body |-> b]) : c \in ClassifyCodes, b \in ClassifyBodies}
  /\ thrown = None

\* The !response.ok block of createJob on the drawn response.
ClassifySubmit ==
  /\ pc = "classify_submit"
  /\ thrown = None
  /\ thrown' = Some(createJobHttpError(reply[1].code, reply[1].body, 0))
  /\ UNCHANGED <<pc, now, profileVars, attempt, lastError, jobId, pollVars, result, failure,
                 raised, delays, invocations, submitCalls, fetchCalls, pollHistory, faults,
                 calcArgs, calcResult, reply, flowVars, pureVars>>

\* The !response.ok block of getJobStatus on the drawn response.
ClassifyFetch ==
  /\ pc = "classify_fetch"
  /\ thrown = None
  /\ thrown' = Some(getJobStatusHttpError(reply[1].code, reply[1].body, JOB_ID, 0))
  /\ UNCHANGED <<pc, now, profileVars, attempt, lastError, jobId, pollVars, result, failure,
                 raised, delays, invocations, submitCalls, fetchCalls, pollHistory, faults,
                 calcArgs, calcResult, reply, flowVars, pureVars>>

ClassifyNext ==
  \/ ClassifySubmit
  \/ ClassifyFetch

ClassifySpec == ClassifyInit /\ [][ClassifyNext]_vars

\* ------------------------------------------------- the submit body on its own

\* A JavaScript value: its type and its text.
Val(t, v) == [t |-> t, v |-> v]

\* The optional fields of a Job Request and the values they may hold.
OptionalFields ==
  [outputSchema : {None, Some(Val("obj", "{}"))},
   targetDurationMinutes : {None, Some(Val("num", "10"))},
   allowDurationExtension : {None, Some(Val("bool", "false")), Some(Val("bool", "true"))},
   maxExtensionMinutes : {None, Some(Val("bool", "false")), Some(Val("num", "0")),
                          Some(Val("num", "5"))},
   additionalValidationInstructions : {None, Some(Val("str", "")), Some(Val("str", "be strict"))},
   canCreateGithubIssues : {None, Some(Val("bool", "false")), Some(Val("bool", "true"))},
   screenSize : {None, Some(Val("str", "desktop")), Some(Val("obj", "{width:320,height:240}"))}]

Prop(key, value) == [key |-> key, value |-> value]

\* ...(cond && { key: value }): the property exists only under cond
SpreadIf(cond, key, value) == IF cond THEN <<Prop(key, value)>> ELSE <<>>

requestBodyDefaultsTarget(req) ==
  <<Prop("url", Some(Val("str", "https://example.com"))),
    Prop("description", Some(Val("str", "Test")))>>
  \o SpreadIf(req.outputSchema # None, "outputSchema", req.outputSchema)
  \o <<Prop("targetDurationMinutes",
            IF req.targetDurationMinutes # None THEN req.targetDurationMinutes
            ELSE Some(Val("num", "5"))),
       Prop("allowDurationExtension", req.allowDurationExtension),
       Prop("maxExtensionMinutes", req.maxExtensionMinutes),
       Prop("additionalValidationInstructions", req.additionalValidationInstructions),
       Prop("canCreateGithubIssues", req.canCreateGithubIssues),
       Prop("repoName", Some(Val("str", "owner/repo")))>>
  \o SpreadIf(req.screenSize # None, "screenSize", req.screenSize)
  \o <<Prop("metadata", Some(Val("obj", "{source:qa-test-action}")))>>

\* The requestBody object literal of createJob: its properties in order, a
\* property assigned undefined holding None.
requestBody(req) ==
  <<Prop("url", Some(Val("str", "https://example.com"))),
    Prop("description", Some(Val("str", "Test")))>>
  \o SpreadIf(req.outputSchema # None, "outputSchema", req.outputSchema)
  \o <<Prop("targetDurationMinutes", req.targetDurationMinutes),
       Prop("allowDurationExtension", req.allowDurationExtension),
       Prop("maxExtensionMinutes", req.maxExtensionMinutes),
       Prop("additionalValidationInstructions", req.additionalValidationInstructions),
       Prop("canCreateGithubIssues", req.canCreateGithubIssues),
       Prop("repoName", Some(Val("str", "owner/repo")))>>
  \o SpreadIf(req.screenSize # None, "screenSize", req.screenSize)
  \o <<Prop("metadata", Some(Val("obj", "{source:qa-test-action}")))>>

\* The JSON text of a value: a string is quoted, any other value is its text.
JsonText(val) == IF val.t = "str" THEN <<"quote", val.v, "quote">> ELSE <<val.v>>

\* JSON.stringify of an object: the properties holding undefined are left
\* out, the others are written as key and JSON text, in order.
JSONstringify(obj) ==
  LET Defined(p) == p.value # None
      kept == SelectSeq(obj, Defined)
  IN [i \in 1..Len(kept) |-> [key |-> kept[i].key, text |-> JsonText(kept[i].value[1])]]

SerializeInit ==
  /\ input \in {Some(r) : r \in OptionalFields}
  /\ output = None
  /\ pc = "serialize"
  /\ now = 0
  /\ request = [targetDurationMinutes |-> None]
  /\ Fresh
  /\ faultLimit = 0
  /\ pollLimit = 0
  /\ calcArgs = None
  /\ calcResult = None
  /\ reply = None
  /\ thrown = None

\* body: JSON.stringify(requestBody) of createJob on the drawn request.
SerializeApply ==
  /\ pc = "serialize"
  /\ output = None
  /\ output' = Some(JSONstringify(requestBody(input[1])))
  /\ UNCHANGED <<pc, now, profileVars, attempt, lastError, jobId, pollVars, result, failure,
                 raised, delays, invocations, submitCalls, fetchCalls, pollHistory, faults,
                 calcVars, flowVars, input>>

SerializeSpec == SerializeInit /\ [][SerializeApply]_vars

\* ------------------------------------------- the workflow verdict on its own

\* response.result of a returned run: absent, or with success absent, true or false.
ResponseResults == {None} \cup {Some([success |-> b]) : b \in {None, Some(TRUE), Some(FALSE)}}

\* !response.result?.success
notSuccess(res) == IF res = None THEN TRUE ELSE res[1].success # Some(TRUE)

shouldFailIgnoresSuccess(inputs, response) ==
  inputs.failOnError /\ response.status # "completed"

\* inputs.failOnError && (response.status !== 'completed' || !response.result?.success)
shouldFail(inputs, response) ==
  inputs.failOnError /\ (response.status # "completed" \/ notSuccess(response.result))

VerdictInit ==
  /\ input \in {Some([inputs |-> i, response |-> r, timedOut |-> t]) :
                  i \in [failOnError : BOOLEAN, failOnTimeout : BOOLEAN],
                  r \in [status : JobStatus, result : ResponseResults],
                  t \in BOOLEAN}
  /\ output = None
  /\ pc = "verdict"
  /\ now = 0
  /\ request = [targetDurationMinutes |-> None]
  /\ Fresh
  /\ faultLimit = 0
  /\ pollLimit = 0
  /\ calcArgs = None
  /\ calcResult = None
  /\ reply = None
  /\ thrown = None

\* run, from the return of runQATest on: whether core.setFailed is called, and
\* with which reason.
VerdictApply ==
  /\ pc = "verdict"
  /\ output = None
  /\ LET inputs == input[1].inputs
         response == input[1].response
     IN output' =
          IF input[1].timedOut
            THEN Some([failed |-> inputs.failOnTimeout, reason |-> "Test timed out"])
            ELSE IF shouldFail(inputs, response)
              THEN Some([failed |-> TRUE,
                         reason |-> IF response.status # "completed"
                                      THEN "Test " \o response.status ELSE "Test failed"])
              ELSE Some([failed |-> FALSE, reason |-> "Test passed successfully"])
  /\ UNCHANGED <<pc, now, profileVars, attempt, lastError, jobId, pollVars, result, failure,
                 raised, delays, invocations, submitCalls, fetchCalls, pollHistory, faults,
                 calcVars, flowVars, input>>

VerdictSpec == VerdictInit /\ [][VerdictApply]_vars

\* ------------------------------------------------ parseInputs on its own

DigitChars == {"0", "1", "2", "3", "4", "5", "6", "7", "8", "9"}

\* Characters of the input texts: digits, a sign, a point, a letter.
InputChars == DigitChars \cup {"-", ".", "a"}

DigitValue(c) ==
  CASE c = "0" -> 0 [] c = "1" -> 1 [] c = "2" -> 2 [] c = "3" -> 3 [] c = "4" -> 4
    [] c = "5" -> 5 [] c = "6" -> 6 [] c = "7" -> 7 [] c = "8" -> 8 [] c = "9" -> 9

RECURSIVE ReadDigits(_, _, _)
\* parseInt reading digits from position i on: acc is the value read so far
\* (None while no digit has been read); it stops at the first other character.
ReadDigits(str, i, acc) ==
  IF i > Len(str) \/ str[i] \notin DigitChars
    THEN acc
    ELSE ReadDigits(str, i + 1,
                    Some((IF acc = None THEN 0 ELSE acc[1]) * 10 + DigitValue(str[i])))

\* parseInt(str, 10) of a text without surrounding blanks (core.getInput trims
\* them): an optional sign, then the leading digits; None is NaN.
parseInt(str) ==
  LET negative == str # <<>> /\ str[1] = "-"
      magnitude == ReadDigits(str, IF negative THEN 2 ELSE 1, None)
  IN IF magnitude = None THEN None
     ELSE IF negative THEN Some(0 - magnitude[1]) ELSE magnitude

targetOutOfRangeNoLower(n) == n = None \/ n[1] > MaxTargetMinutes

\* isNaN(n) || n < 1 || n > 60
targetOutOfRange(n) == n = None \/ n[1] < 1 \/ n[1] > MaxTargetMinutes

\* The target-duration-minutes part of parseInputs: the parsed target (None:
\* undefined), or the error thrown.
parseTargetDuration(targetDurationStr) ==
  IF targetDurationStr = <<>>
    THEN [ok |-> TRUE, targetDurationMinutes |-> None]
    ELSE LET n == parseInt(targetDurationStr)
         IN IF targetOutOfRange(n)
              THEN [ok |-> FALSE, targetDurationMinutes |-> None]
              ELSE [ok |-> TRUE, targetDurationMinutes |-> n]

ParseInit ==
  /\ input \in {Some(s) : s \in UNION {[1..n -> InputChars] : n \in 0..MaxInputLen}}
  /\ output = None
  /\ pc = "parse"
  /\ now = 0
  /\ request = [targetDurationMinutes |-> None]
  /\ Fresh
  /\ faultLimit = 0
  /\ pollLimit = 0
  /\ calcArgs = None
  /\ calcResult = None
  /\ reply = None
  /\ thrown = None

ParseApply ==
  /\ pc = "parse"
  /\ output = None
  /\ output' = Some(parseTargetDuration(input[1]))
  /\ UNCHANGED <<pc, now, profileVars, attempt, lastError, jobId, pollVars, result, failure,
                 raised, delays, invocations, submitCalls, fetchCalls, pollHistory, faults,
                 calcVars, flowVars, input>>

ParseSpec == ParseInit /\ [][ParseApply]_vars

\* ------------------------------------- the response of runQATest on its own

\* The fields of a snapshot that runQATest copies as they are.
CopiedFields ==
  {"status", "result", "costUsd", "testDurationSeconds", "testerData", "testerResponse",
   "testerAlias", "testerAvatarUrl", "testerColor"}

\* Final snapshots with the fields runQATest reads (None: undefined).
FinalSnapshots ==
  [id : {JOB_ID},
   status : {"completed", "error", "working"},
   result : {None, Some([success |-> Some(TRUE)])},
   error : {None, Some(""), Some("boom")},
   reason : {None, Some(""), Some("why")},
   costUsd : {None, Some(Val("null", "null")), Some(Val("num", "2.5"))},
   testDurationSeconds : {None, Some(Val("num", "90"))},
   testerData : {None, Some("data")},
   testerResponse : {None, Some("text")},
   testerAlias : {None, Some("alias")},
   testerAvatarUrl : {None, Some("url")},
   testerColor : {None, Some("color")}]

orElseNullish(a, b) == IF a # None THEN a ELSE b

\* a || b on optional strings: a when it is truthy (defined and not empty), else b.
orElse(a, b) == IF a # None /\ a[1] # "" THEN a ELSE b

\* Step 4 of runQATest: the QATestResult built from the final snapshot and the
\* flag of the poll loop.
QATestResult(finalStatus, timedOut) ==
  [response |->
     [status |-> finalStatus.status,
      result |-> finalStatus.result,
      error |-> orElse(finalStatus.error, finalStatus.reason),
      costUsd |-> finalStatus.costUsd,
      testDurationSeconds |-> finalStatus.testDurationSeconds,
      testerData |-> finalStatus.testerData,
      testerResponse |-> finalStatus.testerResponse,
      testerAlias |-> finalStatus.testerAlias,
      testerAvatarUrl |-> finalStatus.testerAvatarUrl,
      testerColor |-> finalStatus.testerColor,
      jobId |-> Some(finalStatus.id)],
   timedOut |-> timedOut]

ConvertInit ==
  /\ input \in {Some([job |-> j, timedOut |-> t]) : j \in FinalSnapshots, t \in BOOLEAN}
  /\ output = None
  /\ pc = "convert"
  /\ now = 0
  /\ request = [targetDurationMinutes |-> None]
  /\ Fresh
  /\ faultLimit = 0
  /\ pollLimit = 0
  /\ calcArgs = None
  /\ calcResult = None
  /\ reply = None
  /\ thrown = None

\* runQATest from the return of waitForCompletion on.
ConvertApply ==
  /\ pc = "convert"
  /\ output = None
  /\ output' = Some(QATestResult(input[1].job, input[1].timedOut))
  /\ UNCHANGED <<pc, now, profileVars, attempt, lastError, jobId, pollVars, result, failure,
                 raised, delays, invocations, submitCalls, fetchCalls, pollHistory, faults,
                 calcVars, flowVars, input>>

ConvertSpec == ConvertInit /\ [][ConvertApply]_vars

\* ------------------------------------------------- the action as a whole

\* Texts an optional flag input may hold; core.getInput gives '' for one not set.
FlagTexts == {"", "true", "false"}

\* The flags among the ParsedInputs parseInputs returns: failOnError from its
\* input; no failOnTimeout property is set, so it reads as undefined (None).
parseFlags(raw) == [failOnError |-> raw.failOnError # "false", failOnTimeout |-> None]

\* A condition on an optional boolean: undefined and false are falsy.
truthy(opt) == IF opt = None THEN FALSE ELSE opt[1]

\* The status and success outputs formatOutputs sets.
formatOutputs(response) ==
  [status |-> response.status,
   success |-> IF notSuccess(response.result) THEN "false" ELSE "true"]

handleErrorNoExit(error) ==
  [failed |-> TRUE, message |-> error.msg, exitCode |-> None]

\* handleError for an Error without code or cause: the message with its
\* hints, core.setFailed, process.exit(1).
handleError(error) ==
  LET unreachable == includes(error.msg, "ENOTFOUND") \/ includes(error.msg, "ECONNREFUSED")
      message == IF unreachable
                   THEN <<"Network error: Cannot reach Runhuman API.">> \o error.msg
                          \o <<"Check your api-url input and network connectivity.">>
                   ELSE error.msg
      hinted == IF includes(message, "Invalid API key")
                  THEN message \o <<"Get your API key at: https://runhuman.com/playground">>
                  ELSE message
  IN [failed |-> TRUE, message |-> hinted, exitCode |-> Some(1)]

\* Errors thrown inside the try block of run, by parseInputs or by runQATest.
ActionErrors ==
  { [from |-> "parseInputs", msg |-> <<"target-duration-minutes must be between 1 and 60">>],
    [from |-> "runQATest", msg |-> <<"Authentication failed", "Invalid API key">>],
    [from |-> "runQATest", msg |-> <<"fetch failed", "ENOTFOUND">>],
    [from |-> "runQATest", msg |-> <<"Job not found">>] }

\* The responses runQATest may return with its flag: timedOut goes with a
\* status that is not terminal.
ActionReturns ==
  { rt \in [response : [status : JobStatus, result : ResponseResults], timedOut : BOOLEAN] :
      rt.timedOut => ~isTerminal(rt.response.status) }

ActionInit ==
  /\ input \in
       {Some([raw |-> w, caught |-> None, response |-> rt.response, timedOut |-> rt.timedOut]) :
          w \in [failOnError : FlagTexts, failOnTimeout : FlagTexts], rt \in ActionReturns}
       \cup
       {Some([raw |-> w, caught |-> Some(e), response |-> None, timedOut |-> FALSE]) :
          w \in [failOnError : FlagTexts, failOnTimeout : FlagTexts], e \in ActionErrors}
  /\ output = None
  /\ pc = "action"
  /\ now = 0
  /\ request = [targetDurationMinutes |-> None]
  /\ Fresh
  /\ faultLimit = 0
  /\ pollLimit = 0
  /\ calcArgs = None
  /\ calcResult = None
  /\ reply = None
  /\ thrown = None

actionFrame ==
  <<pc, now, profileVars, attempt, lastError, jobId, pollVars, result, failure, raised, delays,
    invocations, submitCalls, fetchCalls, pollHistory, faults, calcVars, flowVars, input>>

\* run when parseInputs and runQATest return: the timed-out output, then the
\* timeout branch or the outputs, the summary and the verdict.
ActionCompletes ==
  /\ pc = "action"
  /\ output = None
  /\ input[1].caught = None
  /\ LET inputs == parseFlags(input[1].raw)
         response == input[1].response
         timedOut == input[1].timedOut
         failReason == IF response.status # "completed"
                         THEN "Test " \o response.status ELSE "Test failed"
         verdict ==
           IF timedOut
             THEN IF truthy(inputs.failOnTimeout)
                    THEN [failed |-> TRUE, message |-> <<"Test timed out">>, exitCode |-> None]
                    ELSE [failed |-> FALSE, message |-> <<>>, exitCode |-> None]
             ELSE IF shouldFail(inputs, response)
               THEN [failed |-> TRUE, message |-> <<failReason>>, exitCode |-> None]
               ELSE [failed |-> FALSE, message |-> <<>>, exitCode |-> None]
     IN output' = Some([timedOutOutput |-> Some(IF timedOut THEN "true" ELSE "false"),
                        outputs |-> Some(formatOutputs(response)),
                        summary |-> TRUE,
                        verdict |-> verdict])
  /\ UNCHANGED actionFrame

\* run when parseInputs or runQATest throws: the catch block.
ActionCatches ==
  /\ pc = "action"
  /\ output = None
  /\ input[1].caught # None
  /\ output' = Some([timedOutOutput |-> None,
                     outputs |-> None,
                     summary |-> FALSE,
                     verdict |-> handleError(input[1].caught[1])])
  /\ UNCHANGED actionFrame

ActionNext ==
  \/ ActionCompletes
  \/ ActionCatches

ActionSpec == ActionInit /\ [][ActionNext]_vars

\* ------------------------------------------- control flow at its await points

resumeAtNoAwait(waitPos, nextPos) == nextPos

\* await: the caller is resumed only when the awaited promise has settled.
resumeAt(waitPos, nextPos) == waitPos

\* What the control-flow steps leave alone.
flowFrame ==
  <<now, profileVars, lastError, startTime, elapsed, maxWaitMs, lastStatus, raised, delays,
    invocations, prevDelays, prevInvocations, prevSpent, termAt, termFetchCalls, ceilMax,
    prevMaxWaitMs, notified, faults, calcVars, pureVars>>

\* Jobs a POST /api/jobs adds on the remote service when the client sees it
\* fail: the request carries no key by which the service could recognise a
\* repeated submission, and a connection that breaks does so before the request
\* arrived (0) or after it was handled (1).
PostEffects(err) == IF err.kind = "Transport" THEN {0, 1} ELSE {0}

\* Errors an invocation may raise, one that withRetry retries and one it does not.
FlowErrors(k) == { getJobStatusNetworkError(<<"fetch failed">>, k), createJobNoIdError(k) }

FlowInit ==
  /\ input = None
  /\ output = None
  /\ pc = "submit"
  /\ now = 0
  /\ request = [targetDurationMinutes |-> None]
  /\ Fresh
  /\ faultLimit = 0
  /\ pollLimit = MaxPolls
  /\ calcArgs = None
  /\ calcResult = None
  /\ reply = None
  /\ thrown = None

\* withRetry calls createJob, which issues the POST; the call is awaited.
FlowIssueSubmit ==
  /\ pc = "submit"
  /\ inFlight' = inFlight + 1
  /\ submitCalls' = submitCalls + 1
  /\ pc' = resumeAt("submit_wait", "poll")
  /\ UNCHANGED <<attempt, jobId, result, failure, fetchCalls, fetched, sleeps, timers, remoteJobs,
                 flowFrame>>

\* The POST settles: createJob returns the job id, or throws and withRetry
\* rethrows or starts its backoff sleep.
FlowSubmitSettles ==
  /\ pc = "submit_wait"
  /\ inFlight' = inFlight - 1
  /\ \/ /\ pc' = "poll"
        /\ jobId' = Some(JOB_ID)
        /\ remoteJobs' = remoteJobs + 1
        /\ attempt' = 0
        /\ UNCHANGED <<failure, timers>>
     \/ \E err \in FlowErrors(attempt) :
          /\ \E n \in PostEffects(err) : remoteJobs' = remoteJobs + n
          /\ IF rethrows(err, attempt)
               THEN /\ pc' = "failed"
                    /\ failure' = Some(err)
                    /\ UNCHANGED <<jobId, attempt, timers>>
               ELSE /\ pc' = "submit_backoff"
                    /\ timers' = timers + 1
                    /\ UNCHANGED <<jobId, attempt, failure>>
  /\ UNCHANGED <<result, submitCalls, fetchCalls, fetched, sleeps, flowFrame>>

\* The backoff sleep of withRetry ends: the loop goes round.
FlowBackoffEnds ==
  /\ pc \in {"submit_backoff", "poll_backoff"}
  /\ timers' = timers - 1
  /\ attempt' = attempt + 1
  /\ pc' = IF pc = "submit_backoff" THEN "submit" ELSE "poll"
  /\ UNCHANGED <<jobId, result, failure, submitCalls, fetchCalls, fetched, sleeps, inFlight,
                 remoteJobs, flowFrame>>

\* withRetry calls getJobStatus, which issues the GET; the call is awaited.
FlowIssueFetch ==
  /\ pc = "poll"
  /\ fetched < pollLimit
  /\ inFlight' = inFlight + 1
  /\ fetchCalls' = fetchCalls + 1
  /\ pc' = resumeAt("poll_wait", "poll")
  /\ UNCHANGED <<attempt, jobId, result, failure, submitCalls, fetched, sleeps, timers,
                 remoteJobs, flowFrame>>

\* The GET settles: with a snapshot, and the loop returns or starts its poll
\* sleep (late: elapsed exceeds the ceiling); or getJobStatus throws.
FlowFetchSettles ==
  /\ pc = "poll_wait"
  /\ inFlight' = inFlight - 1
  /\ \/ \E s \in JobStatus, late \in BOOLEAN :
          /\ fetched' = fetched + 1
          /\ IF isTerminal(s) \/ late
               THEN /\ pc' = "done"
                    /\ result' = Some([job |-> Snapshot(fetched + 1, s, Sched(None, None, None)),
                                       timedOut |-> ~isTerminal(s)])
                    /\ UNCHANGED <<attempt, timers>>
               ELSE /\ pc' = "poll_sleep"
                    /\ timers' = timers + 1
                    /\ attempt' = 0
                    /\ UNCHANGED result
          /\ UNCHANGED failure
     \/ \E err \in FlowErrors(attempt) :
          /\ IF rethrows(err, attempt)
               THEN /\ pc' = "failed"
                    /\ failure' = Some(err)
                    /\ UNCHANGED timers
               ELSE /\ pc' = "poll_backoff"
                    /\ timers' = timers + 1
                    /\ UNCHANGED failure
          /\ UNCHANGED <<fetched, attempt, result>>
  /\ UNCHANGED <<jobId, submitCalls, fetchCalls, sleeps, remoteJobs, flowFrame>>

\* The poll sleep ends: the loop goes round to the next status fetch.
FlowSleepEnds ==
  /\ pc = "poll_sleep"
  /\ timers' = timers - 1
  /\ sleeps' = sleeps + 1
  /\ pc' = "poll"
  /\ UNCHANGED <<attempt, jobId, result, failure, submitCalls, fetchCalls, fetched, inFlight,
                 remoteJobs, flowFrame>>

FlowNext ==
  \/ FlowIssueSubmit
  \/ FlowSubmitSettles
  \/ FlowBackoffEnds
  \/ FlowIssueFetch
  \/ FlowFetchSettles
  \/ FlowSleepEnds

FlowSpec == FlowInit /\ [][FlowNext]_vars

\* ------------------------------------------------------------------ claims

\* The terminal and non-terminal statuses as the specification lists them.
SpecTerminal == {"completed", "incomplete", "abandoned", "rejected", "error"}

SpecNonTerminal == {"pending", "waiting", "working"}

IsPrefix(s, t) == Len(s) <= Len(t) /\ \A i \in 1..Len(s) : s[i] = t[i]

\* C1: once a fetched snapshot has a terminal status, no further status fetch
\* is issued in that run, and the snapshot returned to the caller is exactly
\* that snapshot.
C1_TerminalSnapshotIsFinal ==
  termAt # 0 =>
    /\ pc = "done"
    /\ fetched = termAt
    /\ fetchCalls = termFetchCalls
    /\ result # None
    /\ result[1].job.seq = termAt
    /\ result[1].job.status \in SpecTerminal
    /\ result[1].job.status = lastStatus

C1_Witness ==
  /\ pc = "done"
  /\ termAt = 3
  /\ result[1].job.seq = 3
  /\ result[1].job.status = "rejected"

\* C2: every returned result has timedOut = FALSE exactly when the returned
\* snapshot's status is terminal; an "abandoned" snapshot stops the loop at once
\* with timedOut = FALSE and status "abandoned"; a timedOut = TRUE result carries
\* pending, waiting or working.
C2_TimedOutIffNonTerminal ==
  /\ pc = "done" =>
       /\ result[1].timedOut = FALSE <=> result[1].job.status \in SpecTerminal
       /\ result[1].timedOut = TRUE => result[1].job.status \in SpecNonTerminal
  /\ lastStatus = "abandoned" =>
       /\ pc = "done"
       /\ result[1].timedOut = FALSE
       /\ result[1].job.status = "abandoned"
       /\ result[1].job.seq = fetched

C2_Witness ==
  /\ pc = "done"
  /\ result[1].timedOut = TRUE
  /\ result[1].job.status = "working"

\* C6: within one poll session the effective ceiling never decreases, and after
\* each snapshot it equals the maximum of the initial ceiling and all ceilings
\* recomputed so far.
C6_CeilingMonotone ==
  [][maxWaitMs' >= maxWaitMs /\ maxWaitMs' = ceilMax']_vars

\* A recomputation that yields less than a ceiling already raised is ignored.
C6_Witness ==
  /\ pc = "done"
  /\ fetched >= 2
  /\ maxWaitMs > initialMaxWaitMs(request.targetDurationMinutes)
  /\ calculateMaxWaitMs(result[1].job.targetDurationMinutes,
                        result[1].job.totalExtensionMinutes,
                        result[1].job.responseDeadline, now) < maxWaitMs

\* C8: in an iteration whose snapshot is non-terminal the loop stops if and
\* only if elapsed > ceiling (as recomputed from that snapshot); stopping so, it
\* raises no error and returns that snapshot with timedOut = TRUE; otherwise it
\* goes on polling.
C8_TimeoutIffElapsedExceedsCeiling ==
  [][(fetched' = fetched + 1 /\ lastStatus' \in SpecNonTerminal) =>
       /\ pc' = "done" <=> elapsed > maxWaitMs'
       /\ pc' = "done" =>
            /\ failure' = None
            /\ result' # None
            /\ result'[1].timedOut = TRUE
            /\ result'[1].job.seq = fetched'
            /\ result'[1].job.status = lastStatus'
       /\ pc' # "done" => pc' = "poll" /\ result' = None /\ failure' = None]_vars

C8_Witness ==
  /\ pc = "done"
  /\ failure = None
  /\ result[1].timedOut = TRUE
  /\ result[1].job.seq = fetched
  /\ elapsed = maxWaitMs + POLL_INTERVAL_MS

\* C9 as stated: when the loop stops with timedOut = TRUE, the time spent since
\* polling began exceeds the effective ceiling by at most one poll interval.
C9_OvershootWithinOneInterval ==
  (pc = "done" /\ result[1].timedOut) =>
    (now - startTime) - maxWaitMs <= 5000

\* C9 as amended: when the loop stops with timedOut = TRUE, the time spent
\* since polling began exceeds the effective ceiling by at most one poll
\* interval plus the time spent inside the status fetches (network time and
\* retry backoff) of the last two iterations.
C9_OvershootWithinIntervalAndFetches ==
  (pc = "done" /\ result[1].timedOut) =>
    /\ fetched >= 2
    /\ (now - startTime) - maxWaitMs <= 5000 + prevSpent + (now - (startTime + elapsed))

C9_Witness ==
  /\ pc = "done"
  /\ result[1].timedOut
  /\ (now - startTime) - maxWaitMs > 5000
  /\ prevSpent + (now - (startTime + elapsed)) > 0

\* C3: withRetry invokes the operation at most 4 times; the k-th failed attempt
\* (k = 0, 1, 2) that is a TransportError is followed by a delay of exactly
\* 1000 * 2^k ms; the first success ends the call, so three TransportErrors and
\* a success give the result after 7000 ms of delay.
C3_BackoffSchedule ==
  /\ invocations <= 4
  /\ prevInvocations <= 4
  /\ IsPrefix(delays, <<1000, 2000, 4000>>)
  /\ IsPrefix(prevDelays, <<1000, 2000, 4000>>)
  /\ \A k \in 1..Len(raised) :
       (raised[k].kind = "Transport" /\ k <= 3) => (Len(delays) >= k /\ delays[k] = 1000 * 2^(k - 1))
  /\ Len(raised) = invocations - (IF pc = "done" THEN 1 ELSE 0)
  /\ pc = "done" => Len(delays) = invocations - 1
  /\ prevInvocations > 0 => Len(prevDelays) = prevInvocations - 1
  /\ (pc = "done" /\ invocations = 4) => SumSeq(delays) = 7000
  /\ prevInvocations = 4 => SumSeq(prevDelays) = 7000

C3_Witness ==
  /\ pc = "done"
  /\ invocations = 4
  /\ \A k \in 1..3 : raised[k].kind = "Transport"
  /\ SumSeq(delays) = 7000

\* C4: a failure that is not a TransportError is never retried: withRetry
\* performs no delay and no further invocation after it and propagates it at
\* once, whatever its message text.
C4_NonTransportNeverRetried ==
  \A k \in 1..Len(raised) :
    raised[k].kind # "Transport" =>
      /\ k = Len(raised)
      /\ Len(delays) = k - 1
      /\ pc = "failed"
      /\ failure = Some(raised[k])

\* C5: a TransportError is propagated only when all 4 attempts are used: after
\* exactly 4 invocations and exactly 3 delays, never a fifth invocation, and the
\* error propagated is the one the last attempt raised.
C5_ExhaustionPropagatesLastError ==
  /\ (pc = "failed" /\ failure[1].kind = "Transport") =>
       /\ invocations = 4
       /\ Len(delays) = 3
       /\ failure = Some(raised[4])
       /\ failure[1].attempt = 3
  /\ Len(raised) = 4 =>
       /\ pc = "failed"
       /\ invocations = 4
       /\ Len(delays) = 3
       /\ failure = Some(raised[4])
  /\ jobId = None => submitCalls <= 4

C5_Witness ==
  /\ pc = "failed"
  /\ Len(raised) = 4
  /\ \A k \in 1..4 : raised[k].kind = "Transport"
  /\ Len(delays) = 3

\* C7: if submission fails, the failure is propagated and no status fetch is
\* ever issued; a 401 answer to a submit call ends the run with the
\* authentication failure, with no further submit call (a single one when the
\* first answer is 401), and the run never reaches polling.
C7_SubmitFailureStopsRun ==
  /\ jobId = None => fetchCalls = 0 /\ fetched = 0 /\ pc \in {"submit", "failed"}
  /\ (pc = "failed" /\ jobId = None) => failure # None /\ result = None
  /\ jobId = None =>
       \A k \in 1..Len(raised) :
         raised[k].code = 401 =>
           /\ k = Len(raised)
           /\ submitCalls = k
           /\ pc = "failed"
           /\ failure = Some(raised[k])
           /\ failure[1].kind = "Auth"

C7_Witness ==
  /\ pc = "failed"
  /\ jobId = None
  /\ submitCalls = 1
  /\ fetchCalls = 0
  /\ failure[1].kind = "Auth"

\* C10: for every target duration t in 1..60, with no extension and no
\* absolute deadline, the computed maximum wait is exactly t*60 + 300 seconds.
C10_MaxWaitOfTarget ==
  (/\ calcResult # None
   /\ calcArgs[1].targetDurationMinutes # None
   /\ calcArgs[1].totalExtensionMinutes \in {None, Some(0)}
   /\ calcArgs[1].responseDeadline = None) =>
    calcResult[1] = (calcArgs[1].targetDurationMinutes[1] * 60 + 300) * 1000

C10_Witness ==
  /\ calcResult = Some(3900000)
  /\ calcArgs[1].targetDurationMinutes = Some(60)
  /\ calcArgs[1].totalExtensionMinutes = Some(0)
  /\ calcArgs[1].responseDeadline = None

\* C11: when a snapshot carries an absolute response deadline, the computed
\* maximum wait is max((deadline - now) + 5 minutes, 10 minutes), whatever the
\* target duration and the extension minutes are; it is never below 10 minutes,
\* also when the deadline is already past.
C11_MaxWaitOfDeadline ==
  (calcResult # None /\ calcArgs[1].responseDeadline # None) =>
    LET remaining == calcArgs[1].responseDeadline[1] - now
    IN /\ calcResult[1] = (IF remaining + 300000 > 600000 THEN remaining + 300000 ELSE 600000)
       /\ calcResult[1] >= 600000

\* A deadline already past, with a target and an extension that would give more.
C11_Witness ==
  /\ calcResult = Some(600000)
  /\ calcArgs[1].responseDeadline # None
  /\ calcArgs[1].responseDeadline[1] < now
  /\ calcArgs[1].targetDurationMinutes = Some(60)
  /\ calcArgs[1].totalExtensionMinutes = Some(5)

\* C12: with no absolute deadline, a present target duration gives
\* (target + extension) * 60 s + 5 minutes, an absent extension counting as 0;
\* an absent target duration gives exactly 10 minutes.
C12_MaxWaitWithoutDeadline ==
  (calcResult # None /\ calcArgs[1].responseDeadline = None) =>
    LET t == calcArgs[1].targetDurationMinutes
        e == calcArgs[1].totalExtensionMinutes
    IN /\ (t # None /\ e # None) => calcResult[1] = (t[1] + e[1]) * 60000 + 300000
       /\ (t # None /\ e = None) => calcResult[1] = t[1] * 60000 + 300000
       /\ t = None => calcResult[1] = 600000

C12_Witness ==
  /\ calcResult = Some(720000)
  /\ calcArgs[1].responseDeadline = None
  /\ calcArgs[1].targetDurationMinutes = Some(2)
  /\ calcArgs[1].totalExtensionMinutes = Some(5)

\* C13: after a successful submission the poll loop starts with elapsed = 0 and
\* ceiling = maxWait(requestedTargetMinutes, 0, undefined), for every requested
\* target duration, an absent one included (which gives 10 minutes).
C13_LoopStartsAtZeroWithRequestedCeiling ==
  (pc = "poll" /\ fetchCalls = 0) =>
    /\ jobId # None
    /\ elapsed = 0
    /\ now = startTime
    /\ maxWaitMs = calculateMaxWaitMs(request.targetDurationMinutes, Some(0), None, now)
    /\ request.targetDurationMinutes = None => maxWaitMs = 600000
    /\ request.targetDurationMinutes # None =>
         maxWaitMs = request.targetDurationMinutes[1] * 60000 + 300000

C13_Witness ==
  /\ pc = "poll"
  /\ fetchCalls = 0
  /\ submitCalls = 2
  /\ request.targetDurationMinutes = Some(60)
  /\ elapsed = 0
  /\ maxWaitMs = 3900000

\* C14: when the first terminal status of the snapshot stream is at position n,
\* no status fetch fails and the ceiling is not exceeded, the loop issues exactly
\* n status fetches and n - 1 poll-interval sleeps and stops at the n-th
\* snapshot; the stream pending, working, completed takes exactly 3 fetches.
C14_FetchesAndSleepsUpToFirstTerminal ==
  /\ (pc = "done" /\ ~result[1].timedOut /\ fetchCalls = fetched) =>
       /\ termAt >= 1
       /\ fetchCalls = termAt
       /\ sleeps = termAt - 1
       /\ result[1].job.seq = termAt
  /\ (pc = "poll" /\ fetchCalls = fetched) => (termAt = 0 /\ sleeps = fetched)

C14_Witness ==
  /\ pc = "done"
  /\ result[1].timedOut = FALSE
  /\ result[1].job.status = "completed"
  /\ notified = Some("completed")
  /\ termAt = 3
  /\ fetchCalls = 3
  /\ sleeps = 2

\* C15: each fetched snapshot whose status differs from the status of the
\* previously fetched snapshot produces exactly one status-change notification
\* (the first snapshot always counts as a change); a snapshot with the same
\* status produces none, and nothing else produces one.
C15_OneNotificationPerStatusChange ==
  [][ /\ fetched' = fetched + 1 =>
           LET status == IF result' # None THEN result'[1].job.status ELSE lastStatus'
           IN /\ status = lastStatus'
              /\ status # lastStatus => notified' = Some(status)
              /\ status = lastStatus => notified' = None
      /\ fetched' = fetched => notified' = notified ]_vars

\* A snapshot repeating the previous status, after at least one change.
C15_Witness ==
  /\ pc = "poll"
  /\ fetched = 3
  /\ lastStatus = "working"
  /\ notified = None

\* The message the specification gives a request failure for a response body:
\* from the structured error body when it parses (its error field, else its
\* message field, else the body as a whole), otherwise the raw text, otherwise
\* the literal "(empty response body)".
SpecFailureMessage(body) ==
  CASE body.parsed /\ body.error # <<>> -> body.error
    [] body.parsed /\ body.error = <<>> /\ body.message # <<>> -> body.message
    [] body.parsed /\ body.error = <<>> /\ body.message = <<>> -> body.raw
    [] ~body.parsed /\ body.raw # <<>> -> body.raw
    [] OTHER -> <<"(empty response body)">>

\* The part of an error message after its heading and its status code.
MessageTail(msg) == SubSeq(msg, 3, Len(msg))

C17_NotFoundEndsTheLoop ==
  \A k \in 1..Len(raised) :
    (jobId # None /\ raised[k].code = 404) =>
      /\ raised[k].kind = "NotFound"
      /\ includes(raised[k].msg, jobId[1])
      /\ k = Len(raised)
      /\ invocations = k
      /\ Len(delays) = k - 1
      /\ pc = "failed"
      /\ failure = Some(raised[k])
      /\ result = None

\* A 404 on the 2nd poll iteration, after one retried transport failure.
C17_Witness ==
  /\ pc = "failed"
  /\ fetched = 1
  /\ Len(raised) = 2
  /\ raised[1].kind = "Transport"
  /\ raised[2].code = 404
  /\ failure = Some(raised[2])

\* C18: non-success answers to a status fetch other than 404 are classified
\* exactly as for submit: 401 as an authentication failure, any other status as
\* a request failure whose message comes from the structured error body when
\* parseable, otherwise the raw text, otherwise "(empty response body)".
C18_FetchFailureClassifiedAsSubmit ==
  (pc = "classify_fetch" /\ thrown # None /\ reply[1].code # 404) =>
    LET code == reply[1].code
        body == reply[1].body
        e == thrown[1]
    IN /\ e.kind = createJobHttpError(code, body, 0).kind
       /\ code = 401 => e.kind = "Auth"
       /\ code # 401 =>
            /\ e.kind = "Request"
            /\ e.code = code
            /\ MessageTail(e.msg) = SpecFailureMessage(body)

\* C19: a success response to submit with no jobId or an empty jobId is an
\* error (MalformedResponse): it is not retried, no job handle is produced and
\* no status fetch is ever issued.
C19_MissingJobIdStopsRun ==
  /\ jobId # None => jobId[1] # ""
  /\ \A k \in 1..Len(raised) :
       raised[k].kind = "Malformed" =>
         /\ k = Len(raised)
         /\ submitCalls = k
         /\ Len(delays) = k - 1
         /\ pc = "failed"
         /\ failure = Some(raised[k])
         /\ jobId = None
         /\ fetchCalls = 0
         /\ result = None

\* A response without job id on the 3rd submit attempt.
C19_Witness ==
  /\ pc = "failed"
  /\ submitCalls = 3
  /\ Len(raised) = 3
  /\ raised[3].kind = "Malformed"
  /\ jobId = None
  /\ fetchCalls = 0

\* C20: every status-fetch failure the retry policy does not recover (one that
\* is not a TransportError, or a TransportError on all attempts) propagates
\* unchanged out of waitForCompletion and runQATest: the run ends with that
\* failure, returns no result and makes no further network call.
C20_UnrecoveredFetchFailurePropagates ==
  \A k \in 1..Len(raised) :
    (jobId # None /\ (raised[k].kind # "Transport" \/ k = maxRetries + 1)) =>
      /\ k = Len(raised)
      /\ invocations = k
      /\ pc = "failed"
      /\ failure = Some(raised[k])
      /\ result = None

\* C21 as stated: after a non-terminal snapshot that does not trigger the
\* timeout the loop sleeps exactly the poll interval before the next fetch, and
\* the elapsed value compared with the ceiling grows by exactly that poll
\* interval per iteration (retry backoff is never counted in the poll timing).
C21_ElapsedGrowsByPollInterval ==
  [][(fetched' = fetched + 1 /\ pc' = "poll") =>
       /\ sleeps' = sleeps + 1
       /\ elapsed' = elapsed + 5000]_vars

\* C21 as amended: after such a snapshot the loop sleeps exactly the poll
\* interval (5 seconds) before the next fetch, however many polls or retries
\* came before; the elapsed value compared with the ceiling is the clock time
\* since the loop began, so per iteration it grows by the poll interval plus
\* the time spent inside that iteration's status fetch (network time and retry
\* backoff).
C21_ElapsedGrowsByIntervalAndFetch ==
  [][(fetched' = fetched + 1 /\ pc' = "poll") =>
       /\ sleeps' = sleeps + 1
       /\ prevSpent' >= SumSeq(prevDelays')
       /\ now' = (startTime + elapsed + prevSpent') + 5000
       /\ elapsed' = elapsed + prevSpent' + 5000
       /\ elapsed' = now' - startTime
       /\ delays' = <<>>]_vars

\* The 2nd iteration met one retried failure: 1 s of backoff is in elapsed.
C21_Witness ==
  /\ pc = "poll"
  /\ fetched = 2
  /\ sleeps = 2
  /\ prevDelays = <<1000>>
  /\ prevSpent = 1000
  /\ elapsed = 11000

\* C22: within one run at most one network operation is in progress at any
\* time: the submit call, with all its retries, has completed before the first
\* status fetch starts, and each status fetch has returned or failed before the
\* next fetch, sleep or backoff delay begins.
C22_OneOperationAtATime ==
  /\ inFlight \in {0, 1}
  /\ timers \in {0, 1}
  /\ inFlight + timers <= 1
  /\ inFlight = 1 <=> pc \in {"submit_wait", "poll_wait"}
  /\ timers = 1 <=> pc \in {"submit_backoff", "poll_backoff", "poll_sleep"}
  /\ fetchCalls > 0 =>
       /\ jobId # None
       /\ pc \notin {"submit", "submit_wait", "submit_backoff"}
  /\ pc = "poll_wait" => fetchCalls >= 1

\* A status fetch in flight after a retried submit and a retried fetch.
C22_Witness ==
  /\ pc = "poll_wait"
  /\ inFlight = 1
  /\ timers = 0
  /\ submitCalls = 2
  /\ fetched = 1
  /\ fetchCalls = 3
  /\ attempt = 1

\* JSON.parse of the text of a body property, as the service reads it.
ParsedText(text) ==
  IF Len(text) = 3 THEN Val("str", text[2])
  ELSE IF text[1] \in {"true", "false"} THEN Val("bool", text[1])
  ELSE IF text[1] \in {"{}", "{width:320,height:240}", "{source:qa-test-action}"}
    THEN Val("obj", text[1])
  ELSE Val("num", text[1])

\* The value of a key in a parsed body (None when the body has no such key).
BodyField(body, key) ==
  LET at == {i \in 1..Len(body) : body[i].key = key}
  IN IF at = {} THEN None ELSE Some(ParsedText(body[CHOOSE i \in at : TRUE].text))

OptionalFieldNames ==
  {"outputSchema", "targetDurationMinutes", "allowDurationExtension", "maxExtensionMinutes",
   "additionalValidationInstructions", "canCreateGithubIssues", "screenSize"}

\* C23: serializing a Job Request to the submit body preserves the presence or
\* absence of every optional field: a field absent in the request is absent in
\* the body, a field present is present once with the same value (the literal
\* false of maxExtensionMinutes included), and no field is defaulted.
C23_BodyPreservesOptionalFields ==
  (pc = "serialize" /\ output # None) =>
    \A f \in OptionalFieldNames :
      /\ BodyField(output[1], f) = input[1][f]
      /\ Cardinality({i \in 1..Len(output[1]) : output[1][i].key = f}) <= 1

\* maxExtensionMinutes false and an empty instruction text are kept, the
\* absent target duration stays absent.
C23_Witness ==
  /\ pc = "serialize"
  /\ output # None
  /\ input[1].maxExtensionMinutes = Some(Val("bool", "false"))
  /\ input[1].additionalValidationInstructions = Some(Val("str", ""))
  /\ input[1].targetDurationMinutes = None
  /\ BodyField(output[1], "maxExtensionMinutes") = Some(Val("bool", "false"))
  /\ BodyField(output[1], "targetDurationMinutes") = None

C25_FailedIffFailOnErrorAndNotPassed ==
  (pc = "verdict" /\ output # None /\ ~input[1].timedOut) =>
    LET response == input[1].response
        passed == /\ response.status = "completed"
                  /\ response.result # None
                  /\ response.result[1].success = Some(TRUE)
    IN /\ output[1].failed <=> (input[1].inputs.failOnError /\ ~passed)
       /\ ~input[1].inputs.failOnError => ~output[1].failed

\* A completed job whose result reports success = false fails the workflow.
C25_Witness ==
  /\ pc = "verdict"
  /\ output # None
  /\ ~input[1].timedOut
  /\ input[1].inputs.failOnError
  /\ input[1].response.status = "completed"
  /\ input[1].response.result = Some([success |-> Some(FALSE)])
  /\ output[1] = [failed |-> TRUE, reason |-> "Test failed"]

\* C26: a 408 response to the submit call makes runQATest reject with a timeout
\* error (its message containing "Test timeout"), and no status fetch is issued.
C26_Submit408IsTestTimeout ==
  \A k \in 1..Len(raised) :
    (jobId = None /\ raised[k].code = 408) =>
      /\ pc = "failed"
      /\ failure = Some(raised[k])
      /\ includes(raised[k].msg, "Test timeout")
      /\ fetchCalls = 0

\* The number a text of digits denotes.
NumeralValue(s) ==
  LET RECURSIVE Upto(_)
      Upto(k) == IF k = 0 THEN 0 ELSE Upto(k - 1) * 10 + DigitValue(s[k])
  IN Upto(Len(s))

\* A text that is an integer numeral: digits only, at least one.
IsIntegerText(s) == s # <<>> /\ \A i \in 1..Len(s) : s[i] \in DigitChars

\* The longest run of digits a text begins with.
LeadingDigits(s) ==
  LET run == {k \in 0..Len(s) : \A i \in 1..k : s[i] \in DigitChars}
  IN SubSeq(s, 1, CHOOSE k \in run : \A j \in run : j <= k)

\* C27 as stated: parseInputs rejects every target-duration-minutes value that
\* is not an integer in 1..60 and leaves the target undefined when the input is
\* absent, so the Job Request always has a target duration in 1..60 or none.
C27_RejectsAllButIntegersInRange ==
  (pc = "parse" /\ output # None) =>
    /\ input[1] = <<>> => output[1] = [ok |-> TRUE, targetDurationMinutes |-> None]
    /\ (input[1] # <<>> /\ output[1].ok) =>
         /\ IsIntegerText(input[1])
         /\ NumeralValue(input[1]) \in 1..60
         /\ output[1].targetDurationMinutes = Some(NumeralValue(input[1]))

\* C27 as amended: parseInputs reads the leading integer of the
\* target-duration-minutes text (what follows the leading digits is ignored),
\* rejects the input when it has none or when that integer is outside 1..60,
\* and leaves the target undefined when the input is absent; so the Job
\* Request always has an integer target duration in 1..60 or none.
C27_AcceptsLeadingIntegerInRange ==
  (pc = "parse" /\ output # None) =>
    LET str == input[1]
        out == output[1]
        lead == LeadingDigits(str)
    IN /\ str = <<>> <=> (out.ok /\ out.targetDurationMinutes = None)
       /\ out.ok => (out.targetDurationMinutes = None \/ out.targetDurationMinutes[1] \in 1..60)
       /\ (str # <<>> /\ lead = <<>>) => ~out.ok
       /\ lead # <<>> =>
            /\ out.ok <=> NumeralValue(lead) \in 1..60
            /\ out.ok => out.targetDurationMinutes = Some(NumeralValue(lead))

\* "5.5" is accepted and read as 5.
C27_Witness ==
  /\ pc = "parse"
  /\ input = Some(<<"5", ".", "5">>)
  /\ output = Some([ok |-> TRUE, targetDurationMinutes |-> Some(5)])

\* C28: the terminal check takes precedence over the timeout check: a terminal
\* snapshot fetched in an iteration where elapsed already exceeds the ceiling is
\* returned with timedOut = FALSE, never as a timeout.
C28_TerminalBeforeTimeout ==
  (pc = "done" /\ elapsed > maxWaitMs /\ lastStatus \in SpecTerminal) =>
    /\ result[1].timedOut = FALSE
    /\ result[1].job.status = lastStatus
    /\ result[1].job.seq = fetched

C28_Witness ==
  /\ pc = "done"
  /\ elapsed > maxWaitMs
  /\ lastStatus = "completed"
  /\ result[1].timedOut = FALSE
  /\ result[1].job.status = "completed"

\* C29: the ceiling is recomputed from each snapshot before the timeout check
\* of the same iteration: when a non-terminal snapshot reports an extension
\* that raises the ceiling to at least the current elapsed time, the loop does
\* not time out in that iteration although elapsed exceeded the previous
\* ceiling, and it goes on polling without restarting elapsed.
C29_ExtensionSeenBeforeTimeoutCheck ==
  [][(/\ fetched' = fetched + 1
      /\ lastStatus' \in SpecNonTerminal
      /\ elapsed > maxWaitMs
      /\ ceilMax' >= elapsed) =>
       /\ pc' = "poll"
       /\ result' = None
       /\ maxWaitMs' >= elapsed
       /\ startTime' = startTime
       /\ elapsed' >= elapsed + 5000
       /\ elapsed' = now' - startTime]_vars

\* The latest iteration began after the ceiling it found, its snapshot raised
\* the ceiling, and the loop is polling on.
C29_Witness ==
  /\ pc = "poll"
  /\ fetched >= 2
  /\ lastStatus \in SpecNonTerminal
  /\ elapsed - 5000 - prevSpent > prevMaxWaitMs
  /\ elapsed - 5000 - prevSpent <= maxWaitMs
  /\ maxWaitMs > prevMaxWaitMs

\* C30: the loop never returns timedOut = TRUE while the absolute response
\* deadline reported by the most recent snapshot is still in the future, also
\* when that deadline was extended late in the poll session.
C30_NoTimeoutBeforeDeadline ==
  (pc = "done" /\ result[1].timedOut /\ result[1].job.responseDeadline # None) =>
    result[1].job.responseDeadline[1] <= now

\* C31: no run causes more than one job to be created on the remote service:
\* whatever the submit call met and however often it was retried, the service
\* holds at most one job of the run, and a run that polls holds exactly the one
\* it polls.
C31_AtMostOneJobCreated ==
  /\ remoteJobs <= 1
  /\ jobId # None => remoteJobs = 1

\* The three outcomes of a run: a terminal snapshot with timedOut = false, a
\* non-terminal snapshot with timedOut = true, a propagated failure.
ReturnedTerminal ==
  /\ pc = "done" /\ failure = None /\ result # None
  /\ ~result[1].timedOut /\ result[1].job.status \in SpecTerminal

ReturnedTimedOut ==
  /\ pc = "done" /\ failure = None /\ result # None
  /\ result[1].timedOut /\ result[1].job.status \in SpecNonTerminal

FailurePropagated == pc = "failed" /\ failure # None /\ result = None

\* C32: when every network call returns or fails and the ceilings computed
\* from the snapshots are bounded, every run eventually ends, and a run that has
\* ended has ended in one of the three outcomes: the loop has no other exit and
\* does not poll forever.
C32_RunEndsInOneOfThreeOutcomes ==
  /\ <>(ReturnedTerminal \/ ReturnedTimedOut \/ FailurePropagated)
  /\ [](pc \notin {"submit", "poll"}
         => ReturnedTerminal \/ ReturnedTimedOut \/ FailurePropagated)

\* A run of the longest kind has ended: the request asked for a ceiling above
\* the default one and the loop polled until it was exceeded.
C32_Witness ==
  /\ ReturnedTimedOut
  /\ request.targetDurationMinutes = Some(LongTarget)
  /\ elapsed > DEFAULT_MAX_WAIT_MS
  /\ fetched > 100

\* C33: each status fetch gets a fresh retry budget: an iteration starts with
\* attempt 0 and no backoff behind it, its backoff delays are 1 s, 2 s, 4 s from
\* the first retry on, and a transport failure propagates out of it only after
\* 4 invocations in that iteration, whatever the earlier iterations retried.
C33_FreshRetryBudgetPerFetch ==
  /\ (pc = "poll" /\ invocations = 0) => (attempt = 0 /\ delays = <<>> /\ raised = <<>>)
  /\ (jobId # None /\ pc \in {"poll", "failed"}) =>
       /\ attempt = Len(delays)
       /\ \A i \in 1..Len(delays) : delays[i] = 1000 * 2^(i - 1)
  /\ (jobId # None /\ pc = "failed" /\ failure[1].kind = "Transport") =>
       /\ invocations = maxRetries + 1
       /\ delays = <<1000, 2000, 4000>>

\* A status fetch used its whole budget after the fetch of the iteration
\* before it had recovered from a transport failure.
C33_Witness ==
  /\ pc = "failed"
  /\ fetched >= 1
  /\ prevInvocations >= 2
  /\ prevDelays # <<>>
  /\ failure[1].kind = "Transport"
  /\ invocations = 4
  /\ delays = <<1000, 2000, 4000>>

\* C34: the loop returns only after a successful status fetch: every returned
\* result, timed out or not, carries a snapshot of the job of this run, and it is
\* the latest of the snapshots fetched.
C34_ReturnsLatestFetchedSnapshot ==
  result # None =>
    /\ fetched >= 1
    /\ fetchCalls >= fetched
    /\ result[1].job.seq = fetched
    /\ result[1].job.id = jobId[1]
    /\ result[1].job.status = lastStatus

\* A run timed out on a snapshot whose status differs from the one fetched
\* before it.
C34_Witness ==
  /\ result # None
  /\ result[1].timedOut
  /\ fetched >= 2
  /\ notified = Some(result[1].job.status)

FailOnTimeoutEnabled == input[1].raw.failOnTimeout = "true"

\* C36: when the run times out, the action still sets the outputs and writes
\* the summary from the last snapshot, sets the timed-out output to 'true', and
\* marks the workflow failed if and only if fail-on-timeout is enabled; the
\* fail-on-error rule is not applied.
C36_TimedOutFailsIffFailOnTimeout ==
  (pc = "action" /\ output # None /\ input[1].caught = None /\ input[1].timedOut) =>
    /\ output[1].timedOutOutput = Some("true")
    /\ output[1].outputs # None
    /\ output[1].outputs[1].status = input[1].response.status
    /\ output[1].summary
    /\ output[1].verdict.failed <=> FailOnTimeoutEnabled
    /\ output[1].verdict.exitCode = None

\* The run counts as passed under the fail-on-error rule.
CountsAsPassed ==
  /\ ~input[1].timedOut
  /\ input[1].response.status = "completed"
  /\ input[1].response.result # None
  /\ input[1].response.result[1].success = Some(TRUE)

\* C37: the success output is 'true' exactly when the run counts as passed
\* under the fail-on-error rule (not timed out, status "completed",
\* result.success true), and 'false' in every other outcome.
C37_SuccessOutputIffPassed ==
  (pc = "action" /\ output # None /\ input[1].caught = None) =>
    /\ output[1].outputs # None
    /\ output[1].outputs[1].success = (IF CountsAsPassed THEN "true" ELSE "false")

\* C38: a failure that propagates out of input parsing or runQATest marks the
\* workflow failed and ends the process with exit code 1, whatever the values
\* of fail-on-error and fail-on-timeout, and no outputs and no summary are
\* produced for that run.
C38_PropagatedFailureFailsAndExits ==
  (pc = "action" /\ output # None /\ input[1].caught # None) =>
    /\ output[1].verdict.failed
    /\ output[1].verdict.exitCode = Some(1)
    /\ output[1].timedOutOutput = None
    /\ output[1].outputs = None
    /\ ~output[1].summary

\* runQATest threw in a run with both fail flags switched off.
C38_Witness ==
  /\ pc = "action"
  /\ output # None
  /\ input[1].caught # None
  /\ input[1].caught[1].from = "runQATest"
  /\ input[1].raw = [failOnError |-> "false", failOnTimeout |-> "false"]
  /\ output[1].verdict.failed
  /\ output[1].verdict.exitCode = Some(1)

====
